---- MODULE Spec2Model ----
(***************************************************************************)
(* Coinflow API: the create / list handlers of src/main.py over the        *)
(* document store (database.create_document / database.get_documents).     *)
(*                                                                         *)
(* Encoding of Python values:                                              *)
(*   - an Optional value (or a key that may be absent from a JSON body or  *)
(*     query string) is a sequence of length <= 1: <<>> is None / absent,  *)
(*     <<v>> is the value v;                                               *)
(*   - str is a TLA+ string, a dict is a record, a list is a sequence;     *)
(*   - float amounts are integers (only their sign matters to the code);   *)
(*   - a native store identifier (ObjectId) is a natural number and        *)
(*     str(ObjectId) is its decimal rendering, a string.                   *)
(***************************************************************************)
EXTENDS Integers, Sequences, FiniteSets, TLC

VARIABLES db, resp

vars == <<db, resp>>

\* Bound of the model: total number of documents held by the store.
MaxDocs == 2

None == <<>>
Some(v) == <<v>>

\* Python truthiness of an Optional[str]: None and "" are falsy.
Truthy(o) == o # None /\ o[1] # ""

\* Limit bounds and default of the Query(...) declarations.
EXPENSE_LIMIT_LE == 500
BUDGET_LIMIT_LE == 200
GOAL_LIMIT_LE == 200
LIMIT_GE == 1
LIMIT_DEFAULT == 50

HTTP_OK == 200
HTTP_UNPROCESSABLE == 422
HTTP_SERVER_ERROR == 500

\* datetime.isoformat() of the ingestion instant t.
IsoFormat(t) == "2026-01-01T00:00:0" \o ToString(t)

\* str(ObjectId)
Str(oid) == ToString(oid)

Take(s, n) == IF Len(s) <= n THEN s ELSE SubSeq(s, 1, n)

(***************************************************************************)
(* Request models (pydantic BaseModel classes of main.py).                 *)
(***************************************************************************)

\* ExpenseIn: amount is the only required field, no value constraints.
ExpenseInValid(body) == body.amount # None

\* ExpenseIn(...).model_dump(): defaults filled in.
ExpenseInDump(body) ==
  [ amount   |-> body.amount[1],
    currency |-> IF body.currency = None THEN "USD" ELSE body.currency[1],
    date     |-> body.date,
    merchant |-> None,
    note     |-> None,
    category |-> body.category,
    account  |-> None,
    type     |-> IF body.type = None THEN "debit" ELSE body.type[1] ]

\* BudgetIn: category and amount required.
BudgetInValid(body) == body.category # None /\ body.amount # None

BudgetInDump(body) ==
  [ category |-> body.category[1],
    amount   |-> body.amount[1],
    month    |-> body.month ]

\* GoalIn: name and target_amount required.
GoalInValid(body) == body.name # None /\ body.target_amount # None

GoalInDump(body) ==
  [ name           |-> body.name[1],
    target_amount  |-> body.target_amount[1],
    current_amount |-> IF body.current_amount = None THEN 0 ELSE body.current_amount[1],
    deadline       |-> body.deadline ]

\* Query(50, ge=1, le=...): the value of the limit parameter and its check.
LimitValue(q) == IF q = None THEN LIMIT_DEFAULT ELSE q[1]

\* Variant of ExpenseLimitValid: the lower bound declared as ge=0.
ExpenseLimitValid_ge0(limit) == limit >= 0 /\ limit <= EXPENSE_LIMIT_LE

ExpenseLimitValid(limit) == limit >= LIMIT_GE /\ limit <= EXPENSE_LIMIT_LE
BudgetLimitValid(limit) == limit >= LIMIT_GE /\ limit <= BUDGET_LIMIT_LE
GoalLimitValid(limit) == limit >= LIMIT_GE /\ limit <= GOAL_LIMIT_LE

(***************************************************************************)
(* Documented collection schemas (schemas.py).  No handler refers to them. *)
(***************************************************************************)

\* Expense: amount gt=0, currency of length 3, type Literal["debit", "credit"].
ExpenseSchemaOK(body) ==
  /\ body.amount # None /\ body.amount[1] > 0
  /\ body.currency = None \/ Len(body.currency[1]) = 3
  /\ body.type = None \/ body.type[1] \in { "debit", "credit" }

\* Budget: category required, amount gt=0.
BudgetSchemaOK(body) ==
  /\ body.category # None
  /\ body.amount # None /\ body.amount[1] > 0

\* Goal: name required, target_amount gt=0, current_amount ge=0.
GoalSchemaOK(body) ==
  /\ body.name # None
  /\ body.target_amount # None /\ body.target_amount[1] > 0
  /\ body.current_amount = None \/ body.current_amount[1] >= 0

(***************************************************************************)
(* Document access facade (module database).                               *)
(***************************************************************************)

Collections == {"expense", "budget", "goal"}

TotalDocs(store) == Len(store.expense) + Len(store.budget) + Len(store.goal)

\* The store assigns a fresh identifier to each inserted document.
NextOid(store) == TotalDocs(store) + 1

\* Exact-match filter: logical AND over the filter's fields.
Matches(doc, filter) == \A k \in DOMAIN filter : doc[k] = filter[k]

\* create_document(collection, data): raises when the store is unreachable,
\* otherwise appends one document and returns the identifier as a string.
create_document(store, up, coll, data) ==
  IF ~up
  THEN [ raised |-> TRUE, store |-> store, id |-> None ]
  ELSE LET oid == NextOid(store) IN
       [ raised |-> FALSE,
         store  |-> [store EXCEPT ![coll] = Append(@, data @@ [_id |-> oid])],
         id     |-> Some(Str(oid)) ]

\* get_documents(collection, filter, limit): raises when the store is
\* unreachable, otherwise the matching documents in insertion order, capped.
get_documents(store, up, coll, filter, limit) ==
  IF ~up
  THEN [ raised |-> TRUE, docs |-> <<>> ]
  ELSE [ raised |-> FALSE,
         docs   |-> Take(SelectSeq(store[coll], LAMBDA d : Matches(d, filter)), limit) ]

(***************************************************************************)
(* Handlers.  Each returns the store after the call and the response.      *)
(***************************************************************************)

Response(op, status, id, items, body, query, up, now, calls) ==
  [ op |-> op, status |-> status, id |-> id, items |-> items, body |-> body,
    query |-> query, up |-> up, now |-> now, calls |-> calls ]

NoQuery == [ narrow |-> None, limit |-> None ]

InsertCall(coll, data) == [ fn |-> "create_document", coll |-> coll, data |-> data ]
FindCall(coll, filter, limit) ==
  [ fn |-> "get_documents", coll |-> coll, filter |-> filter, limit |-> limit ]

\* for d in docs: d["_id"] = str(d.get("_id"))
StringifyIds(docs) == [ i \in DOMAIN docs |-> [docs[i] EXCEPT !._id = Str(@)] ]

\* Variant of ExpenseDate: the date is overwritten unconditionally.
ExpenseDate_overwrite(date, now) == Some(IsoFormat(now))

\* data["date"] = data.get("date") or datetime.utcnow().isoformat()
ExpenseDate(date, now) == IF Truthy(date) THEN date ELSE Some(IsoFormat(now))

\* Variant of CreateHandler: the exception is swallowed and success returned.
CreateHandler_swallow(op, coll, store, up, now, body, data) ==
  LET r == create_document(store, up, coll, data) IN
  [ db   |-> r.store,
    resp |-> Response(op, HTTP_OK, r.id, <<>>, Some(body), NoQuery, up, now,
                      <<InsertCall(coll, data)>>) ]

\* Variant of CreateHandler: the document is inserted twice.
CreateHandler_twice(op, coll, store, up, now, body, data) ==
  LET first == create_document(store, up, coll, data)
      r == create_document(first.store, up, coll, data)
  IN  [ db   |-> r.store,
        resp |-> Response(op, IF r.raised THEN HTTP_SERVER_ERROR ELSE HTTP_OK, r.id,
                          <<>>, Some(body), NoQuery, up, now,
                          <<InsertCall(coll, data), InsertCall(coll, data)>>) ]

\* Body of a create handler once the request model is built.
CreateHandler(op, coll, store, up, now, body, data) ==
  LET r == create_document(store, up, coll, data) IN
  [ db   |-> r.store,
    resp |-> Response(op, IF r.raised THEN HTTP_SERVER_ERROR ELSE HTTP_OK, r.id,
                      <<>>, Some(body), NoQuery, up, now,
                      <<InsertCall(coll, data)>>) ]

\* Rejection at the boundary (request validation), before the handler runs.
Rejected(op, store, up, now, body, query) ==
  [ db   |-> store,
    resp |-> Response(op, HTTP_UNPROCESSABLE, None, <<>>, body, query, up, now, <<>>) ]

add_expense(store, up, now, body) ==
  IF ~ExpenseInValid(body)
  THEN Rejected("add_expense", store, up, None, Some(body), NoQuery)
  ELSE LET dump == ExpenseInDump(body)
           data == [dump EXCEPT !.date = ExpenseDate(@, now)]
       IN  CreateHandler("add_expense", "expense", store, up, Some(now), body, data)

add_budget(store, up, body) ==
  IF ~BudgetInValid(body)
  THEN Rejected("add_budget", store, up, None, Some(body), NoQuery)
  ELSE CreateHandler("add_budget", "budget", store, up, None, body, BudgetInDump(body))

add_goal(store, up, body) ==
  IF ~GoalInValid(body)
  THEN Rejected("add_goal", store, up, None, Some(body), NoQuery)
  ELSE CreateHandler("add_goal", "goal", store, up, None, body, GoalInDump(body))

\* Body of a list handler once the filter is built.
ListHandler(op, coll, store, up, query, filter, limit) ==
  LET r == get_documents(store, up, coll, filter, limit) IN
  [ db   |-> store,
    resp |-> Response(op, IF r.raised THEN HTTP_SERVER_ERROR ELSE HTTP_OK, None,
                      StringifyIds(r.docs), None, query, up, None,
                      <<FindCall(coll, filter, limit)>>) ]

\* Variant of expense_filter: the category is matched against another field.
expense_filter_merchant(category) ==
  IF Truthy(category) THEN [ type |-> "debit", merchant |-> category ]
                      ELSE [ type |-> "debit" ]

\* Variant of expense_filter: the restriction to debits is missing.
expense_filter_untyped(category) ==
  IF Truthy(category) THEN [ category |-> category ] ELSE <<>>

\* Variant of expense_filter: "if category is not None" for "if category".
expense_filter_not_none(category) ==
  IF category # None THEN [ type |-> "debit", category |-> category ]
                     ELSE [ type |-> "debit" ]

\* filter_query = {"type": "debit"}; if category: filter_query["category"] = category
expense_filter(category) ==
  IF Truthy(category) THEN [ type |-> "debit", category |-> category ]
                      ELSE [ type |-> "debit" ]

\* filter_query = {}; if month: filter_query["month"] = month
budget_filter(month) ==
  IF Truthy(month) THEN [ month |-> month ] ELSE <<>>

list_expenses(store, up, category, limitq) ==
  LET query == [ narrow |-> category, limit |-> limitq ]
      limit == LimitValue(limitq)
  IN  IF ~ExpenseLimitValid(limit)
      THEN Rejected("list_expenses", store, up, None, None, query)
      ELSE ListHandler("list_expenses", "expense", store, up, query,
                       expense_filter(category), limit)

list_budgets(store, up, month, limitq) ==
  LET query == [ narrow |-> month, limit |-> limitq ]
      limit == LimitValue(limitq)
  IN  IF ~BudgetLimitValid(limit)
      THEN Rejected("list_budgets", store, up, None, None, query)
      ELSE ListHandler("list_budgets", "budget", store, up, query,
                       budget_filter(month), limit)

list_goals(store, up, limitq) ==
  LET query == [ narrow |-> None, limit |-> limitq ]
      limit == LimitValue(limitq)
  IN  IF ~GoalLimitValid(limit)
      THEN Rejected("list_goals", store, up, None, None, query)
      ELSE ListHandler("list_goals", "goal", store, up, query, <<>>, limit)

(***************************************************************************)
(* Requests the environment sends.                                         *)
(***************************************************************************)

\* Instants at which the clock may be read (datetime.utcnow()).
Times == {1, 2}

\* A single instant, for runs in which the clock does not vary.
OneInstant == {1}

ExpenseBody(amount, currency, date, category, type) ==
  [ amount |-> amount, currency |-> currency, date |-> date,
    category |-> category, type |-> type ]

ExpenseBodies ==
  \* well-formed expenses: categories food / travel / unset, types debit / credit
  { ExpenseBody(Some(1), None, None, Some("food"), None),
    ExpenseBody(Some(1), None, None, Some("travel"), None),
    ExpenseBody(Some(1), None, None, Some("food"), Some("credit")),
    ExpenseBody(Some(1), None, None, None, None) }
  \* one field off the documented schema at a time
  \cup { ExpenseBody(None, None, None, None, None),
         ExpenseBody(Some(0), None, None, None, None),
         ExpenseBody(Some(1), Some("US"), None, None, None),
         ExpenseBody(Some(1), None, None, None, Some("refund")) }
  \* caller-supplied dates
  \cup { ExpenseBody(Some(1), None, Some(""), None, None),
         ExpenseBody(Some(1), None, Some("2024-05-01"), None, None) }

Categories == { None, Some(""), Some("food"), Some("travel") }

BudgetBodies ==
  { [ category |-> Some("food"), amount |-> Some(1), month |-> None ],
    [ category |-> Some("food"), amount |-> Some(1), month |-> Some("2024-05") ],
    [ category |-> Some("food"), amount |-> Some(0), month |-> None ],
    [ category |-> None, amount |-> Some(1), month |-> None ] }

Months == { None, Some(""), Some("2024-05") }

GoalBodies ==
  { [ name |-> Some("car"), target_amount |-> t, current_amount |-> None,
      deadline |-> None ] : t \in { None, Some(0), Some(1) } }

ExpenseLimits == { None, Some(0), Some(1), Some(EXPENSE_LIMIT_LE), Some(EXPENSE_LIMIT_LE + 1) }
BudgetLimits == { None, Some(0), Some(1), Some(BUDGET_LIMIT_LE + 1) }
GoalLimits == { None, Some(0), Some(1), Some(GOAL_LIMIT_LE + 1) }

(***************************************************************************)
(* State machine.                                                          *)
(***************************************************************************)

Init ==
  /\ db = [ expense |-> <<>>, budget |-> <<>>, goal |-> <<>> ]
  /\ resp = Response("none", 0, None, <<>>, None, NoQuery, TRUE, None, <<>>)

Apply(r) ==
  /\ TotalDocs(r.db) <= MaxDocs
  /\ db' = r.db
  /\ resp' = r.resp

AddExpenseAt(instants) ==
  \E up \in BOOLEAN, now \in instants, body \in ExpenseBodies :
    Apply(add_expense(db, up, now, body))

AddExpense == AddExpenseAt(OneInstant)

AddExpenseClock == AddExpenseAt(Times)

ListExpenses ==
  \E up \in BOOLEAN, category \in Categories, limitq \in ExpenseLimits :
    Apply(list_expenses(db, up, category, limitq))

AddBudget ==
  \E up \in BOOLEAN, body \in BudgetBodies :
    Apply(add_budget(db, up, body))

ListBudgets ==
  \E up \in BOOLEAN, month \in Months, limitq \in BudgetLimits :
    Apply(list_budgets(db, up, month, limitq))

AddGoal ==
  \E up \in BOOLEAN, body \in GoalBodies :
    Apply(add_goal(db, up, body))

ListGoals ==
  \E up \in BOOLEAN, limitq \in GoalLimits :
    Apply(list_goals(db, up, limitq))

Next ==
  \/ AddExpense
  \/ ListExpenses
  \/ AddBudget
  \/ ListBudgets
  \/ AddGoal
  \/ ListGoals

Spec == Init /\ [][Next]_vars

\* The expense endpoints alone, with a clock that varies between requests.
NextExpense ==
  \/ AddExpenseClock
  \/ ListExpenses

SpecExpense == Init /\ [][NextExpense]_vars

(***************************************************************************)
(* Properties.                                                             *)
(***************************************************************************)

CreateOps == { "add_expense", "add_budget", "add_goal" }
ListOps == { "list_expenses", "list_budgets", "list_goals" }

CollOf(op) ==
  CASE op \in { "add_expense", "list_expenses" } -> "expense"
    [] op \in { "add_budget", "list_budgets" } -> "budget"
    [] OTHER -> "goal"

LastDoc(s) == s[Len(s)]

ItemIds(items) == { items[i]._id : i \in DOMAIN items }

\* The request behind response r passed the boundary validation, so the
\* handler body ran.
HandlerEntered(r) ==
  CASE r.op = "add_expense" -> ExpenseInValid(r.body[1])
    [] r.op = "add_budget" -> BudgetInValid(r.body[1])
    [] r.op = "add_goal" -> GoalInValid(r.body[1])
    [] r.op = "list_expenses" -> ExpenseLimitValid(LimitValue(r.query.limit))
    [] r.op = "list_budgets" -> BudgetLimitValid(LimitValue(r.query.limit))
    [] r.op = "list_goals" -> GoalLimitValid(LimitValue(r.query.limit))
    [] OTHER -> FALSE

\* C1: a Budget create with amount <= 0 and a Goal create with
\* target_amount <= 0 fail with a validation error and store nothing (stated
\* for a reachable store: the request is rejected without any facade call, and
\* no stored budget / goal has a non-positive amount / target_amount).
C1_NonPositiveRejected ==
  /\ (resp.op = "add_budget" /\ resp.up /\ resp.body[1].amount # None
        /\ resp.body[1].amount[1] <= 0)
       => (resp.status = HTTP_UNPROCESSABLE /\ resp.calls = <<>>)
  /\ (resp.op = "add_goal" /\ resp.up /\ resp.body[1].target_amount # None
        /\ resp.body[1].target_amount[1] <= 0)
       => (resp.status = HTTP_UNPROCESSABLE /\ resp.calls = <<>>)
  /\ \A i \in DOMAIN db.budget : db.budget[i].amount > 0
  /\ \A i \in DOMAIN db.goal : db.goal[i].target_amount > 0

\* Every stored document satisfies the documented schema of its collection.
StoreSchemaValid ==
  /\ \A i \in DOMAIN db.expense :
       /\ db.expense[i].amount > 0
       /\ Len(db.expense[i].currency) = 3
       /\ db.expense[i].type \in { "debit", "credit" }
  /\ \A i \in DOMAIN db.budget : db.budget[i].amount > 0
  /\ \A i \in DOMAIN db.goal : db.goal[i].target_amount > 0

\* An expense body that is valid by the documented schema and of one of the
\* given (defaulted) types.
ValidExpenseOfType(body, types) ==
  /\ ExpenseSchemaOK(body)
  /\ (IF body.type = None THEN "debit" ELSE body.type[1]) \in types

\* One step of the create-then-list contract for expenses of the given types:
\* with the store reachable the create succeeds and returns an identifier,
\* and a successful list call that follows it with the matching category and
\* a limit covering the collection returns an item with that identifier.
CreateThenList(types) ==
  /\ (resp'.op = "add_expense" /\ resp'.up /\ ValidExpenseOfType(resp'.body[1], types))
       => (resp'.status = HTTP_OK /\ resp'.id # None)
  /\ (/\ resp.op = "add_expense" /\ resp.status = HTTP_OK
      /\ ValidExpenseOfType(resp.body[1], types)
      /\ resp'.op = "list_expenses" /\ resp'.status = HTTP_OK
      /\ resp'.query.narrow = resp.body[1].category
      /\ LimitValue(resp'.query.limit) >= Len(db.expense))
       => resp.id[1] \in ItemIds(resp'.items)

\* C2 (as stated): every valid Expense input with amount > 0, of any allowed
\* type and any category, is created and then returned by the list call with
\* the matching category (stated over stores of schema-valid documents).
C2_AnyTypeListed ==
  [][StoreSchemaValid => CreateThenList({ "debit", "credit" })]_vars

\* C2 (amended): the same for expenses of type "debit" (given or by default).
C2_DebitListed == [][CreateThenList({ "debit" })]_vars

C2_Witness ==
  /\ resp.op = "list_expenses" /\ resp.status = HTTP_OK
  /\ resp.query.narrow = Some("food")
  /\ Len(db.expense) = 2
  /\ Str(LastDoc(db.expense)._id) \in ItemIds(resp.items)

\* The stored expenses a category listing is specified to return.
DebitOfCategory(c) ==
  SelectSeq(db.expense, LAMBDA d : d.category = c /\ d.type = "debit")

\* A successful category listing whose limit covers the matches returns
\* exactly the stored debit expenses of that category.
ExactCategoryListing ==
  resp.items = StringifyIds(DebitOfCategory(resp.query.narrow))

\* C3 (as stated): list_expenses called with category = c, for any string c,
\* returns exactly the stored expenses of category c and type "debit" (stated
\* over stores of schema-valid documents).
C3_ExactForAnyCategory ==
  (/\ StoreSchemaValid
   /\ resp.op = "list_expenses" /\ resp.status = HTTP_OK
   /\ resp.query.narrow # None
   /\ LimitValue(resp.query.limit) >= Len(DebitOfCategory(resp.query.narrow)))
    => ExactCategoryListing

\* C3 (amended): the same for every non-empty category c.
C3_ExactForNonEmptyCategory ==
  (/\ resp.op = "list_expenses" /\ resp.status = HTTP_OK
   /\ resp.query.narrow # None /\ resp.query.narrow # Some("")
   /\ LimitValue(resp.query.limit) >= Len(DebitOfCategory(resp.query.narrow)))
    => ExactCategoryListing

C3_Witness ==
  /\ resp.op = "list_expenses" /\ resp.status = HTTP_OK
  /\ resp.query.narrow = Some("food")
  /\ Len(db.expense) = 2
  /\ Len(resp.items) = 1
  /\ \E i \in DOMAIN db.expense :
       db.expense[i].category = Some("food") /\ db.expense[i].type = "credit"

\* C4: while the store is unreachable, every call of a create or list handler
\* (a request that passed the boundary validation) returns HTTP 500, no
\* request at all gets a success response, and no collection changes.
C4_UnreachableStore ==
  [][ ~resp'.up =>
        /\ db' = db
        /\ resp'.status # HTTP_OK
        /\ HandlerEntered(resp') => resp'.status = HTTP_SERVER_ERROR ]_vars

C4_Witness ==
  /\ ~resp.up /\ resp.op = "add_goal" /\ HandlerEntered(resp)
  /\ resp.status = HTTP_SERVER_ERROR
  /\ TotalDocs(db) = 1

LimitLe(op) ==
  CASE op = "list_expenses" -> 500
    [] op = "list_budgets" -> 200
    [] OTHER -> 200

\* C5: a list request whose limit is outside 1..500 (expenses) or 1..200
\* (budgets, goals) is rejected as a client input error with no facade call; a
\* limit inside the bound reaches get_documents unchanged; get_documents is
\* never invoked with a limit outside the bound.
C5_LimitBoundary ==
  resp.op \in ListOps =>
    LET limit == LimitValue(resp.query.limit)
        inside == limit >= 1 /\ limit <= LimitLe(resp.op)
    IN  /\ ~inside => (resp.status = HTTP_UNPROCESSABLE /\ resp.calls = <<>>)
        /\ inside => (/\ Len(resp.calls) = 1
                      /\ resp.calls[1].fn = "get_documents"
                      /\ resp.calls[1].limit = limit
                      /\ resp.status # HTTP_UNPROCESSABLE)
        /\ \A i \in DOMAIN resp.calls :
             resp.calls[i].limit >= 1 /\ resp.calls[i].limit <= LimitLe(resp.op)

C5_Witness ==
  /\ resp.op = "list_expenses" /\ resp.query.limit = Some(500)
  /\ resp.status = HTTP_OK /\ Len(resp.items) = 2

\* C6: an Expense create that violates a schema constraint (amount <= 0, type
\* other than "debit" / "credit", currency not 3 characters long) is rejected
\* with a validation error before any storage interaction, so no stored
\* expense violates the schema (stated for a reachable store).
C6_InvalidExpenseRejected ==
  /\ (resp.op = "add_expense" /\ resp.up /\ ~ExpenseSchemaOK(resp.body[1]))
       => (resp.status = HTTP_UNPROCESSABLE /\ resp.calls = <<>>)
  /\ \A i \in DOMAIN db.expense :
       /\ db.expense[i].amount > 0
       /\ Len(db.expense[i].currency) = 3
       /\ db.expense[i].type \in { "debit", "credit" }

\* C7: a successful create appends exactly one document, with a fresh
\* identifier, to the collection of its own kind and leaves the other
\* collections and every stored document as they were; every other request
\* (list calls, failed creates) leaves all collections unchanged.
C7_Frame ==
  [][ IF resp'.op \in CreateOps /\ resp'.status = HTTP_OK
      THEN LET k == CollOf(resp'.op) IN
           /\ Len(db'[k]) = Len(db[k]) + 1
           /\ SubSeq(db'[k], 1, Len(db[k])) = db[k]
           /\ \A c \in Collections \ {k} : db'[c] = db[c]
           /\ \A c \in Collections : \A i \in DOMAIN db[c] :
                db[c][i]._id # LastDoc(db'[k])._id
           /\ resp'.id = Some(Str(LastDoc(db'[k])._id))
      ELSE db' = db ]_vars

C7_Witness ==
  /\ resp.op = "add_budget" /\ resp.status = HTTP_OK
  /\ Len(db.budget) = 1 /\ Len(db.expense) = 1

\* What add_expense has stored for the request behind the current response.
StoredExpense == LastDoc(db.expense)

ExpenseCreated == resp.op = "add_expense" /\ resp.status = HTTP_OK

DefaultsApplied ==
  /\ resp.body[1].currency = None => StoredExpense.currency = "USD"
  /\ resp.body[1].type = None => StoredExpense.type = "debit"
  /\ resp.body[1].date = None => StoredExpense.date = Some(IsoFormat(resp.now[1]))

\* C8 (as stated): an Expense created without currency / type / date is stored
\* with "USD" / "debit" / the ingestion time, and any date the caller supplies
\* is stored unchanged (stated over stores of schema-valid documents).
C8_AnySuppliedDateKept ==
  (StoreSchemaValid /\ ExpenseCreated) =>
    /\ DefaultsApplied
    /\ resp.body[1].date # None => StoredExpense.date = resp.body[1].date

\* C8 (amended): the defaults as stated; a non-empty date the caller supplies
\* is stored unchanged, and an empty-string date is replaced by the ingestion
\* time like an absent one.
C8_NonEmptyDateKept ==
  ExpenseCreated =>
    /\ DefaultsApplied
    /\ Truthy(resp.body[1].date) => StoredExpense.date = resp.body[1].date
    /\ resp.body[1].date = Some("") => StoredExpense.date = Some(IsoFormat(resp.now[1]))

C8_Witness ==
  /\ ExpenseCreated
  /\ resp.body[1].date = Some("2024-05-01")
  /\ resp.body[1].currency = None
  /\ Len(db.expense) = 2
  /\ db.expense[1].date = Some(IsoFormat(2))

\* The listing the store holds for a filter-less request of the given limit.
Unfiltered(coll, keep(_), limitq) ==
  StringifyIds(Take(SelectSeq(db[coll], keep), LimitValue(limitq)))

\* C10: a narrowing parameter given as the empty string is treated as absent:
\* list_expenses with category = "" queries {type: "debit"} alone and returns
\* what the call without category returns; list_budgets with month = ""
\* queries the empty filter and returns what the call without month returns.
C10_EmptyStringAbsent ==
  /\ (resp.op = "list_expenses" /\ resp.status = HTTP_OK
        /\ resp.query.narrow = Some(""))
       => /\ resp.calls[1].filter = [ type |-> "debit" ]
          /\ resp.items = Unfiltered("expense", LAMBDA d : d.type = "debit",
                                     resp.query.limit)
          /\ resp.items = list_expenses(db, TRUE, None, resp.query.limit).resp.items
  /\ (resp.op = "list_budgets" /\ resp.status = HTTP_OK
        /\ resp.query.narrow = Some(""))
       => /\ DOMAIN resp.calls[1].filter = {}
          /\ resp.items = Unfiltered("budget", LAMBDA d : TRUE, resp.query.limit)
          /\ resp.items = list_budgets(db, TRUE, None, resp.query.limit).resp.items

C10_Witness ==
  /\ resp.op = "list_expenses" /\ resp.status = HTTP_OK
  /\ resp.query.narrow = Some("")
  /\ Len(resp.items) = 2
  /\ resp.items[1].category = Some("food")
  /\ resp.items[2].category = None

====
